---- MODULE Spec2Model ----
(***************************************************************************)
(* Model of the anagram solver of src/main.cpp: class Solver (constructor, *)
(* sanitize, queryContains, seed, permute, solve) and main.                *)
(*                                                                         *)
(* A std::string is a sequence of character codes.  A WordScoreMap         *)
(* (std::map<std::string,int>) is a function whose domain is its key set;  *)
(* iteration over a map visits the keys in ascending std::string order.    *)
(***************************************************************************)
EXTENDS Integers, Sequences, FiniteSets, TLC

\* ' ' (the character sanitize removes) and the letters of the bounded alphabet
Space == 32
Letters == {97, 98}
Alphabet == Letters \cup {Space}

\* bounds of the four specifications: the longest query, the longest dictionary
\* line, and the number of different lines of the file that seed accepts
MaxQueryLen == 3
MaxLineLen == 2
MaxLines == 3
WordsQueryLen == 4
WordsLineLen == 2
WordsLines == 3
UnaryQueryLen == 3
UnaryLineLen == 2
UnaryLines == 3
LongQueryLen == 4
LongLineLen == 3
LongLines == 3

Strs(A, n) == UNION {[1..k -> A] : k \in 0..n}

VARIABLES
    pc,            \* position of main / seed / solve
    query,         \* main's local `query` after argument parsing
    all,           \* main's local `all` (-a given)
    query_,        \* Solver::query_
    forceAll_,     \* Solver::forceAll_
    sortedQuery_,  \* Solver::sortedQuery_
    maxLength_,    \* Solver::maxLength_
    scores_,       \* Solver::scores_ : 0..maxLength_ -> WordScoreMap
    seedResult,    \* what seed returned: "none", "true", "false"
    minLength,     \* solve's local minLength
    i,             \* solve's loop variable
    iterations,    \* solve's local iterations
    answers,       \* the texts solve printed, as WordScore pairs in print order
    parts,         \* history: for every stored key, the dictionary lines it was built from, in key order
    seeded,        \* history: the lines seed accepted
    reads,         \* history: bucket indexes the last permute call took operands from
    rewrote        \* history: some insertion replaced a stored score by a different one

vars == <<pc, query, all, query_, forceAll_, sortedQuery_, maxLength_, scores_,
          seedResult, minLength, i, iterations, answers, parts, seeded,
          reads, rewrote>>

----------------------------------------------------------------------------
\* std::string operator< : lexicographic on character codes, a proper prefix is smaller
RECURSIVE StrLessFrom(_, _, _)
StrLessFrom(a, b, n) ==
    IF n > Len(b) THEN FALSE
    ELSE IF n > Len(a) THEN TRUE
    ELSE IF a[n] < b[n] THEN TRUE
    ELSE IF b[n] < a[n] THEN FALSE
    ELSE StrLessFrom(a, b, n + 1)

StrLess(a, b) == StrLessFrom(a, b, 1)

\* insertion of one character into an ascending sequence (std::sort on characters)
RECURSIVE InsertChar(_, _)
InsertChar(s, c) ==
    IF s = <<>> THEN <<c>>
    ELSE IF c < Head(s) THEN <<c>> \o s
    ELSE <<Head(s)>> \o InsertChar(Tail(s), c)

RECURSIVE SortChars(_)
SortChars(s) == IF s = <<>> THEN <<>> ELSE InsertChar(SortChars(Tail(s)), Head(s))

IsLetterChar(c) == c # Space

\* Solver::sanitize: erase every ' ', then sort
sanitize(word) == SortChars(SelectSeq(word, IsLetterChar))

\* the while(*q) loop of queryContains; wi, qi are the positions of w and q,
\* a position past the end is the terminating '\0'
RECURSIVE ScanQuery(_, _, _, _)
ScanQuery(w, q, wi, qi) ==
    IF qi > Len(q) THEN FALSE
    ELSE LET wn == IF wi <= Len(w) /\ w[wi] = q[qi] THEN wi + 1 ELSE wi
         IN  IF wn > Len(w) THEN TRUE ELSE ScanQuery(w, q, wn, qi + 1)

\* Solver::queryContains
queryContains(word) ==
    IF Len(word) = 0 THEN FALSE
    ELSE ScanQuery(sanitize(word), sortedQuery_, 1, 1)

----------------------------------------------------------------------------
\* WordScoreMap helpers
EmptyMap == <<>>
Put(m, k, v) == (k :> v) @@ m

\* position of key k in the iteration order of a map with key set S
Rank(S, k) == Cardinality({x \in S : StrLess(x, k)}) + 1

\* the keys of a map in iteration order (begin() .. end())
SortedKeys(m) ==
    LET S == DOMAIN m
    IN  [n \in 1..Cardinality(S) |-> CHOOSE k \in S : Rank(S, k) = n]

----------------------------------------------------------------------------
\* the state when main starts, its arguments already parsed (lines 214-224):
\* query is the last argument that is not "-a", drawn from Q; all tells whether -a was given
InitWith(Q) ==
    /\ pc = "main"
    /\ query \in Q
    /\ all \in BOOLEAN
    /\ query_ = <<>>
    /\ forceAll_ = FALSE
    /\ sortedQuery_ = <<>>
    /\ maxLength_ = 0
    /\ scores_ = <<>>
    /\ seedResult = "none"
    /\ minLength = 0
    /\ i = 0
    /\ iterations = 0
    /\ answers = <<>>
    /\ parts = <<>>
    /\ seeded = {}
    /\ reads = {}
    /\ rewrote = FALSE

\* main, lines 226-229: no query given
MainUsage ==
    /\ pc = "main"
    /\ Len(query) < 1
    /\ pc' = "usage"
    /\ UNCHANGED <<query, all, query_, forceAll_, sortedQuery_, maxLength_, scores_,
                   seedResult, minLength, i, iterations, answers, parts,
                   seeded, reads, rewrote>>

\* main, lines 231-234: Solver solver(query); if(all) solver.forceAll();
MainConstruct ==
    /\ pc = "main"
    /\ ~(Len(query) < 1)
    /\ query_' = query
    /\ sortedQuery_' = sanitize(query)
    /\ maxLength_' = Len(sanitize(query))
    /\ scores_' = [n \in 0..Len(sanitize(query)) |-> EmptyMap]
    /\ parts' = [n \in 0..Len(sanitize(query)) |-> EmptyMap]
    /\ forceAll_' = all
    /\ pc' = "seed"
    /\ UNCHANGED <<query, all, seedResult, minLength, i, iterations, answers,
                   seeded, reads, rewrote>>

\* seed, lines 79-82: the ifstream could not be opened
SeedOpenFail ==
    /\ pc = "seed"
    /\ seedResult' = "false"
    /\ pc' = "solve"
    /\ UNCHANGED <<query, all, query_, forceAll_, sortedQuery_, maxLength_, scores_,
                   minLength, i, iterations, answers, parts, seeded,
                   reads, rewrote>>

\* seed, line 79: the ifstream is open
SeedOpen ==
    /\ pc = "seed"
    /\ pc' = "getline"
    /\ UNCHANGED <<query, all, query_, forceAll_, sortedQuery_, maxLength_, scores_,
                   seedResult, minLength, i, iterations, answers, parts,
                   seeded, reads, rewrote>>

\* the body of seed's while loop (lines 86-92) for one line of the file
seedWord(word) ==
    LET length == Len(word)
    IN  IF length > maxLength_ \/ ~queryContains(word)
        THEN UNCHANGED <<scores_, parts, seeded>>
        ELSE /\ scores_' = [scores_ EXCEPT ![length] = Put(@, word, length * length)]
             /\ parts' = [parts EXCEPT ![length] = Put(@, word, <<word>>)]
             /\ seeded' = seeded \cup {word}

\* seed, line 85: getline delivers one more line, drawn from the lines D; the
\* file holds at most N different lines that seed accepts
SeedLine(D, N) ==
    /\ pc = "getline"
    /\ Cardinality(seeded) < N
    /\ \E word \in D : seedWord(word)
    /\ UNCHANGED <<pc, query, all, query_, forceAll_, sortedQuery_, maxLength_,
                   seedResult, minLength, i, iterations, answers, reads, rewrote>>

\* seed, lines 85 and 95: getline fails at end of file, seed returns true
SeedEof ==
    /\ pc = "getline"
    /\ seedResult' = "true"
    /\ pc' = "solve"
    /\ UNCHANGED <<query, all, query_, forceAll_, sortedQuery_, maxLength_, scores_,
                   minLength, i, iterations, answers, parts, seeded,
                   reads, rewrote>>

----------------------------------------------------------------------------
\* permute, lines 155-159: the two keys joined by ' ', the smaller key first
Combine(a, b) ==
    IF StrLess(a, b) THEN a \o <<Space>> \o b ELSE b \o <<Space>> \o a

\* the dictionary lines of a combination, in the order Combine writes them
CombineParts(a, b, pa, pb) == IF StrLess(a, b) THEN pa \o pb ELSE pb \o pa

\* permute, lines 155-163: one (scores1It, scores2It) pair.  st carries scores_,
\* iterations and the history variables through the loops.
PermutePair(st, length, s1, s2, k1, k2) ==
    LET combined == Combine(k1, k2)
        sum == st.scores[s1][k1] + st.scores[s2][k2]
    IN  IF queryContains(combined)
        THEN [st EXCEPT
                !.scores[length] = Put(@, combined, sum),
                !.parts[length] = Put(@, combined,
                                      CombineParts(k1, k2, st.parts[s1][k1], st.parts[s2][k2])),
                !.rewrote = @ \/ (/\ combined \in DOMAIN st.scores[length]
                                  /\ st.scores[length][combined] # sum)]
        ELSE st

\* permute, line 153: the inner loop over scores2
RECURSIVE PermuteInner(_, _, _, _, _, _, _)
PermuteInner(st, length, s1, s2, k1, ks2, j) ==
    IF j > Len(ks2) THEN st
    ELSE PermuteInner(PermutePair(st, length, s1, s2, k1, ks2[j]),
                      length, s1, s2, k1, ks2, j + 1)

\* permute, line 152: the outer loop over scores1
RECURSIVE PermuteOuter(_, _, _, _, _, _, _)
PermuteOuter(st, length, s1, s2, ks1, ks2, j) ==
    IF j > Len(ks1) THEN st
    ELSE PermuteOuter(PermuteInner(st, length, s1, s2, ks1[j], ks2, 1),
                      length, s1, s2, ks1, ks2, j + 1)

\* FirstSplit without the minimum part length: the split (length, 0) comes first
FirstSplitWhole(length, minLen) == length

\* permute, line 131: the first value of scores1Length
FirstSplit(length, minLen) == length - minLen

\* permute, lines 131-166: the loop over scores1Length, from s1 downwards
RECURSIVE PermuteSplits(_, _, _, _)
PermuteSplits(st, length, minLen, s1) ==
    IF ~(s1 >= minLen) THEN st
    ELSE LET s2 == length - s1
         IN  IF s2 > s1 THEN st
             ELSE LET rd == [st EXCEPT !.reads = @ \cup {s1, s2}]
                      n1 == Cardinality(DOMAIN st.scores[s1])
                      n2 == Cardinality(DOMAIN st.scores[s2])
                  IN  IF n1 = 0 \/ n2 = 0
                      THEN PermuteSplits(rd, length, minLen, s1 - 1)
                      ELSE PermuteSplits(
                               PermuteOuter([rd EXCEPT !.iterations = @ + n1 * n2],
                                            length, s1, s2,
                                            SortedKeys(st.scores[s1]),
                                            SortedKeys(st.scores[s2]), 1),
                               length, minLen, s1 - 1)

\* Solver::permute(length, minLength)
permute(length, minLen) ==
    PermuteSplits([scores |-> scores_, parts |-> parts, iterations |-> 0,
                   reads |-> {}, rewrote |-> rewrote],
                  length, minLen, FirstSplit(length, minLen))

\* solve, lines 172-188: queryLength, minLength, iterations = 0
SolveBegin ==
    /\ pc = "solve"
    /\ LET queryLength == Len(sortedQuery_)
           half == (queryLength \div 2) - 2
           floored == IF half < 1 THEN 1 ELSE half
       IN  minLength' = IF forceAll_ THEN 1 ELSE floored
    /\ i' = 0
    /\ iterations' = 0
    /\ pc' = "permute"
    /\ UNCHANGED <<query, all, query_, forceAll_, sortedQuery_, maxLength_, scores_,
                   seedResult, answers, parts, seeded, reads, rewrote>>

\* solve, lines 189-191: one pass of the loop, iterations += permute(i, minLength)
SolvePermute ==
    /\ pc = "permute"
    /\ i <= Len(sortedQuery_)
    /\ LET r == permute(i, minLength)
       IN  /\ scores_' = r.scores
           /\ parts' = r.parts
           /\ reads' = r.reads
           /\ rewrote' = r.rewrote
           /\ iterations' = iterations + r.iterations
    /\ i' = i + 1
    /\ UNCHANGED <<pc, query, all, query_, forceAll_, sortedQuery_, maxLength_,
                   seedResult, minLength, answers, seeded>>

\* sortScores with the score comparison reversed: lower score first
sortScoresAscending(a, b) ==
    IF b.second = a.second THEN StrLess(a.first, b.first)
    ELSE a.second < b.second

\* sortScores(a, b): higher score first, identical scores alphabetically
sortScores(a, b) ==
    IF b.second = a.second THEN StrLess(a.first, b.first)
    ELSE b.second < a.second

\* std::sort with comparator sortScores: insertion of one pair into a sorted list
RECURSIVE InsertScore(_, _)
InsertScore(s, x) ==
    IF s = <<>> THEN <<x>>
    ELSE IF sortScores(x, Head(s)) THEN <<x>> \o s
    ELSE <<Head(s)>> \o InsertScore(Tail(s), x)

RECURSIVE SortScoreList(_)
SortScoreList(s) == IF s = <<>> THEN <<>> ELSE InsertScore(SortScoreList(Tail(s)), Head(s))

\* solve, lines 197-201: the pairs of scores_[queryLength] that pass queryContains, in map order
RECURSIVE CollectAnswers(_, _, _)
CollectAnswers(m, ks, j) ==
    IF j > Len(ks) THEN <<>>
    ELSE (IF queryContains(ks[j]) THEN <<[first |-> ks[j], second |-> m[ks[j]]]>> ELSE <<>>)
         \o CollectAnswers(m, ks, j + 1)

\* solve, lines 197-209 and main's return: filter, sort, print
SolveRank ==
    /\ pc = "permute"
    /\ ~(i <= Len(sortedQuery_))
    /\ LET queryLength == Len(sortedQuery_)
       IN  answers' = SortScoreList(CollectAnswers(scores_[queryLength],
                                                   SortedKeys(scores_[queryLength]), 1))
    /\ pc' = "exit"
    /\ UNCHANGED <<query, all, query_, forceAll_, sortedQuery_, maxLength_, scores_,
                   seedResult, minLength, i, iterations, parts, seeded,
                   reads, rewrote>>

\* the steps of main, seed and solve that do not depend on the contents of the file
Step ==
    \/ MainUsage
    \/ MainConstruct
    \/ SeedOpenFail
    \/ SeedOpen
    \/ SeedEof
    \/ SolveBegin
    \/ SolvePermute
    \/ SolveRank

\* Spec: queries and dictionary lines over letters and spaces
Init == InitWith(Strs(Alphabet, MaxQueryLen))
Next == Step \/ SeedLine(Strs(Alphabet, MaxLineLen), MaxLines)
Spec == Init /\ [][Next]_vars

\* SpecWords: longer queries and dictionary lines, both made of letters only
InitWords == InitWith(Strs(Letters, WordsQueryLen))
NextWords == Step \/ SeedLine(Strs(Letters, WordsLineLen), WordsLines)
SpecWords == InitWords /\ [][NextWords]_vars

\* SpecUnary: queries and lines over one letter and the space
UnaryAlphabet == {97, Space}
InitUnary == InitWith(Strs(UnaryAlphabet, UnaryQueryLen))
NextUnary == Step \/ SeedLine(Strs(UnaryAlphabet, UnaryLineLen), UnaryLines)
SpecUnary == InitUnary /\ [][NextUnary]_vars

\* SpecLong: as SpecUnary, with longer queries and lines
InitLong == InitWith(Strs(UnaryAlphabet, LongQueryLen))
NextLong == Step \/ SeedLine(Strs(UnaryAlphabet, LongLineLen), LongLines)
SpecLong == InitLong /\ [][NextLong]_vars

----------------------------------------------------------------------------
\* Vocabulary of the properties

\* occurrences of x in the sequence s
Count(s, x) == Cardinality({n \in 1..Len(s) : s[n] = x})

Range(s) == {s[n] : n \in 1..Len(s)}

\* the non-space characters of a string
LettersOf(s) == SelectSeq(s, IsLetterChar)

\* the letters of s are a sub-multiset of the letters of t
SubMultiset(s, t) ==
    \A c \in Range(LettersOf(s)) : Count(s, c) <= Count(t, c)

\* the sequences s and t hold the same elements the same number of times
SameBag(s, t) ==
    /\ Len(s) = Len(t)
    /\ \A x \in Range(s) \cup Range(t) : Count(s, x) = Count(t, x)

\* the space-separated words of a text
RECURSIVE Tokens(_, _, _)
Tokens(text, n, cur) ==
    IF n > Len(text) THEN <<cur>>
    ELSE IF text[n] = Space THEN <<cur>> \o Tokens(text, n + 1, <<>>)
    ELSE Tokens(text, n + 1, Append(cur, text[n]))

WordsOf(text) == Tokens(text, 1, <<>>)

\* all letters of a sequence of words, one after the other
RECURSIVE Concat(_)
Concat(ws) == IF ws = <<>> THEN <<>> ELSE Head(ws) \o Concat(Tail(ws))

\* a sequence of strings is in lexicographic order
Ascending(ws) == \A n \in 1..(Len(ws) - 1) : ~StrLess(ws[n + 1], ws[n])

Buckets == DOMAIN scores_
Keys(L) == DOMAIN scores_[L]
Emitted == {answers[n].first : n \in 1..Len(answers)}
SeedRan == pc \in {"getline", "solve", "permute", "exit"}
SolveRan == pc \in {"permute", "exit"}
----------------------------------------------------------------------------
\* C1: every text solve emits is a key of bucket[queryLength] whose sanitized
\* characters equal the query's sorted letters, and every such key is emitted.
C1_TrueAnagrams ==
    pc = "exit" =>
        /\ Emitted \subseteq Keys(maxLength_)
        /\ \A k \in Keys(maxLength_) :
               (k \in Emitted) <=> (sanitize(k) = sanitize(query_))

\* the multisets (as ascending sequences) of n accepted dictionary lines
SeededBags(n) == {ws \in [1..n -> seeded] : Ascending(ws)}

\* C2: for every multiset of two or more accepted dictionary words, each of
\* length >= minLength, whose letters together are exactly the query's letters,
\* solve emits an entry whose space-separated words are that multiset.
C2_AllMultiWord ==
    pc = "exit" =>
        \A n \in 2..(maxLength_ + 1) : \A ws \in SeededBags(n) :
            (/\ \A j \in 1..n : Len(ws[j]) >= minLength
             /\ sanitize(Concat(ws)) = sortedQuery_)
            => \E e \in Emitted : SameBag(WordsOf(e), ws)

\* C3: every key of every bucket lists the dictionary words it was built from
\* in lexicographic order, so no two distinct keys of one bucket are built
\* from the same multiset of words; this for any number of words.
C3_CanonicalOrder ==
    \A L \in Buckets :
        /\ \A k \in Keys(L) : Ascending(parts[L][k])
        /\ \A k1, k2 \in Keys(L) :
               SameBag(parts[L][k1], parts[L][k2]) => k1 = k2

\* C4: every key of bucket[L] has exactly L non-space characters, and its
\* letters are a sub-multiset of the query's letters.
C4_BucketInvariant ==
    \A L \in Buckets : \A k \in Keys(L) :
        /\ Len(LettersOf(k)) = L
        /\ SubMultiset(k, query_)

\* C5: the emitted list is ordered by score descending, equal scores by text
\* ascending; hence no text appears twice.
C5_Ordered ==
    \A m, n \in 1..Len(answers) :
        m < n =>
            \/ answers[m].second > answers[n].second
            \/ /\ answers[m].second = answers[n].second
               /\ StrLess(answers[m].first, answers[n].first)

\* an emitted list with two entries of equal score followed by one of lower score
C5_Witness ==
    /\ pc = "exit"
    /\ Len(answers) >= 3
    /\ answers[1].second = answers[2].second
    /\ answers[2].second > answers[3].second

\* C6: when seed fails every bucket is empty and solve is never executed afterwards.
C6_FailedSeedAborts ==
    seedResult = "false" =>
        /\ \A L \in Buckets : Keys(L) = {}
        /\ ~SolveRan

\* C7: a query without letters (empty, or spaces only) runs neither seed nor
\* solve and produces no results.
C7_EmptyQueryRefused ==
    Len(LettersOf(query)) = 0 =>
        /\ ~SeedRan
        /\ ~SolveRan
        /\ answers = <<>>

\* C8: once the solver is built, for every word over the alphabet
\* queryContains(word) is true exactly when word has at least one non-space
\* character and its letters are a sub-multiset of the query's letters; so is
\* every line seed accepted.
C8_ExactContainment ==
    SeedRan =>
        /\ \A word \in Strs(Alphabet, MaxLineLen) :
               queryContains(word) <=>
                   (/\ Len(LettersOf(word)) > 0
                    /\ SubMultiset(word, query_))
        /\ \A word \in seeded :
               /\ Len(LettersOf(word)) > 0
               /\ SubMultiset(word, query_)

C10_ScoresStable ==
    /\ \A L \in Buckets : \A k \in Keys(L) :
           (k \in seeded /\ Len(k) = L /\ Len(parts[L][k]) = 1) => scores_[L][k] = L * L
    /\ ~rewrote
====
